---- MODULE Spec2Model ----
(***************************************************************************)
(* Model of the victim / triage world of atomic_domain_definitions         *)
(* (src/victims_clr.py, assembled by src/maker.py): the victim registry,   *)
(* the search / aim / approach / triage actions compiled for one triaging  *)
(* agent, the just-saved flags and the reward rule.                        *)
(*                                                                         *)
(* A PsychSim step applies, for the chosen action, the dynamics tree of    *)
(* every state key that has one for that action, all evaluated on the      *)
(* state before the step (a tree that names makeFuture(key) reads the      *)
(* value of key after the step); keys without dynamics for the action      *)
(* keep their value.  The agent's reward tree is evaluated on the state    *)
(* after the step.                                                         *)
(***************************************************************************)
EXTENDS Integers, Sequences, FiniteSets, TLC

VARIABLES
    victimAgents,          \* Victims.victimAgents: list of Victim objects
    victimsByLocAndColor,  \* Victims.victimsByLocAndColor: (loc, color) -> Victim object
    vic,                   \* world state of the victim agents: color, danger, reward, loc, savior
    reqdTimes,             \* Victims.COLOR_REQD_TIMES as configured for this world
    humanLoc,              \* stateKey(human, 'loc')
    vicInFOV,              \* stateKey(human, STR_FOV_VAR)
    vicInCH,               \* stateKey(human, STR_CROSSHAIR_VAR)
    vicApproached,         \* stateKey(human, STR_APPROACH_VAR)
    saved,                 \* stateKey(human, 'saved_' + color)
    unobs,                 \* stateKey(human, getUnObsName(loc, color))
    reward,                \* rewardKey(human)
    rwd_dict,              \* the rwd_dict argument of makeVictimReward
    rtree,                 \* the reward tree compiled by makeVictimReward
    lastAct,               \* history: the verb of the last step
    numRewardSet,          \* history: per color, the number of steps that set the reward to its weight
    scen,                  \* history: progress through the aim, approach, triage scenario
    COLOR_FOV_P,           \* Victims.COLOR_FOV_P, in tenths
    build,                 \* history: the calls of makeVictims so far and the outcome of the last
    call,                  \* history: the last call of a function on its own, with its result
    FULL_OBS,              \* Victims.FULL_OBS: "None", "False" or "True"
    actions,               \* the verbs of the actions the world has for the human
    reader,                \* the msgreader object: mission_running, messages, observations, doors
    analyzer,              \* the RewardModelAnalyzer object: files, results, trajectories
    cache                  \* the result and trajectory files in the analyzer's output directory

vars == <<victimAgents, victimsByLocAndColor, vic, reqdTimes, humanLoc, vicInFOV,
          vicInCH, vicApproached, saved, unobs, reward, rwd_dict, rtree,
          lastAct, numRewardSet, scen, COLOR_FOV_P, build, call, FULL_OBS, actions,
          reader, analyzer, cache>>

----------------------------------------------------------------------------
(* Bounds of the model *)

MaxVictims == 2
MaxReqdTime == 2
MaxOverTriage == 1
MaxDeclared == 3
MaxLines == 3
MaxCoord == 3
MaxPortals == 2
MaxFiles == 2

----------------------------------------------------------------------------
(* Constants of the program *)

COLORS == <<"Green", "Gold", "Red", "White">>
ColorSet == {COLORS[i] : i \in DOMAIN COLORS}

\* the keys of COLOR_REQD_TIMES / COLOR_REWARDS / COLOR_EXPIRY in their dict order
RescuableColors == <<"Green", "Gold">>
RescuableSet == {RescuableColors[i] : i \in DOMAIN RescuableColors}

COLOR_REWARDS == [c \in RescuableSet |-> IF c = "Green" THEN 10 ELSE 200]
COLOR_EXPIRY == [c \in RescuableSet |-> IF c = "Green" THEN 900 ELSE 450]

\* the detection probabilities makeWorld sets, in tenths
makeWorldFOV_P == [c \in ColorSet |-> IF c = "White" THEN 4 ELSE 2]
FOV_ONE == 10

\* makeWorld(playerName, initLoc, SandRLocs, SandRVics): the player, the
\* rooms of the map (two of them stand for the map) and the player's room
humanName == "Player173"
allLocations == {"R1", "R2"}
initLoc == "R1"

\* COLOR_REQD_TIMES: 1 for both colors in the source; the worlds of the model
\* take every table that gives both colors the same 1..MaxReqdTime
ReqdTimeTables == {[c \in RescuableSet |-> t] : t \in 1..MaxReqdTime}

----------------------------------------------------------------------------
(* Victim registry: makeVictims / _makeVictim *)

EmptyMap == [x \in {} |-> 0]

\* The registry a build works on: the two class-level collections, the
\* victim agents' state in the world, and the exception that ended the build
\* ("none" when none was raised).  The nested dict victimsByLocAndColor is a
\* list of entries [loc, color, vicObj] in order of first insertion.
EmptyRegistry ==
    [victimAgents |-> <<>>, victimsByLocAndColor |-> <<>>, world |-> EmptyMap,
     err |-> "none"]

HasKey(byLC, loc, color) ==
    \E i \in DOMAIN byLC : byLC[i].loc = loc /\ byLC[i].color = color

\* Victims.victimsByLocAndColor[loc][color] = vicObj
PutVictim(byLC, loc, color, vicObj) ==
    IF HasKey(byLC, loc, color)
    THEN [i \in DOMAIN byLC |->
             IF byLC[i].loc = loc /\ byLC[i].color = color
             THEN [byLC[i] EXCEPT !.vicObj = vicObj] ELSE byLC[i]]
    ELSE Append(byLC, [loc |-> loc, color |-> color, vicObj |-> vicObj])

\* the features st set for every agent of the world
WithAgent_all(world, vi, st) ==
    [v \in DOMAIN world \cup {vi} |-> st]

\* the world with the features st of agent vi set
WithAgent(world, vi, st) ==
    [v \in DOMAIN world \cup {vi} |-> IF v = vi THEN st ELSE world[v]]

\* A victim is named 'victim' + str(vi); the model names it by vi.  The agent
\* is added to the world and its features are set one by one; a color that is
\* no key of COLOR_REQD_TIMES, COLOR_REWARDS or COLOR_EXPIRY raises KeyError
\* at the lookup, with everything done before it left in place.
_makeVictim(reg, vi, loc, color, times) ==
    IF color \notin DOMAIN times
    THEN [reg EXCEPT !.world = WithAgent(reg.world, vi, [color |-> color]),
                     !.err = "KeyError"]
    ELSE IF color \notin DOMAIN COLOR_REWARDS
    THEN [reg EXCEPT !.world = WithAgent(reg.world, vi,
                                   [color |-> color, danger |-> times[color]]),
                     !.err = "KeyError"]
    ELSE
    LET rew     == COLOR_REWARDS[color]
        state   == [color |-> color, danger |-> times[color], reward |-> rew,
                    loc |-> loc, savior |-> "none"]
    IN  IF color \notin DOMAIN COLOR_EXPIRY
        THEN [reg EXCEPT !.world = WithAgent(reg.world, vi, state), !.err = "KeyError"]
        ELSE
        LET vicObj == [room |-> loc, color |-> color, vicAgent |-> vi,
                       expiry |-> COLOR_EXPIRY[color], reward |-> rew]
        IN  [victimAgents |-> Append(reg.victimAgents, vicObj),
             victimsByLocAndColor |->
                 PutVictim(reg.victimsByLocAndColor, loc, color, vicObj),
             world |-> WithAgent(reg.world, vi, state),
             err |-> reg.err]

\* the loop of makeVictims from victim vi on; an exception ends it
RECURSIVE makeVictimsFrom(_, _, _, _, _)
makeVictimsFrom(reg, vi, vLocations, colors, times) ==
    IF vi >= Len(colors) \/ reg.err # "none" THEN reg
    ELSE makeVictimsFrom(_makeVictim(reg, vi, vLocations[vi + 1], colors[vi + 1], times),
                         vi + 1, vLocations, colors, times)

\* makeVictims with the victims of the common prefix made before the lengths
\* are compared
makeVictims_assertLast(reg, vLocations, colors, times) ==
    LET n   == IF Len(vLocations) < Len(colors) THEN Len(vLocations) ELSE Len(colors)
        out == makeVictimsFrom(reg, 0, SubSeq(vLocations, 1, n), SubSeq(colors, 1, n), times)
    IN  IF out.err = "none" /\ Len(vLocations) # Len(colors)
        THEN [out EXCEPT !.err = "AssertionError"] ELSE out

\* makeVictims on the registry reg, whose world is the world being built
makeVictims(reg, vLocations, colors, times) ==
    IF Len(vLocations) # Len(colors)
    THEN [reg EXCEPT !.err = "AssertionError"]
    ELSE makeVictimsFrom(reg, 0, vLocations, colors, times)

\* Victims.victimsByLocAndColor[loc].values(), in dict order
VicsHere(byLC, loc) ==
    LET inLoc(e) == e.loc = loc
        here == SelectSeq(byLC, inLoc)
    IN  [i \in DOMAIN here |-> here[i].vicObj]

\* the victims of the registry that have compiled triage dynamics
LookupVictims(byLC) == {byLC[i].vicObj.vicAgent : i \in DOMAIN byLC}

\* getVicName: the outcome of the call, an exception raised or a name
\* returned; the name 'victim' + str(vi) is <<"victim", vi>>, the empty name
\* '' is << >>.
getVicName(byLC, loc, color) ==
    IF \A i \in DOMAIN byLC : byLC[i].loc # loc
    THEN [raised |-> "KeyError", value |-> <<>>]
    ELSE IF ~HasKey(byLC, loc, color)
    THEN [raised |-> "none", value |-> <<>>]
    ELSE LET i == CHOOSE j \in DOMAIN byLC : byLC[j].loc = loc /\ byLC[j].color = color
         IN  [raised |-> "none", value |-> <<"victim", byLC[i].vicObj.vicAgent>>]

\* the largest number of victims the list vLocations declares in one room
RoomMax(vLocations) ==
    LET inRoom(loc) == Cardinality({i \in DOMAIN vLocations : vLocations[i] = loc})
    IN  CHOOSE m \in 0..Len(vLocations) :
           /\ \A loc \in allLocations : inRoom(loc) <= m
           /\ m = 0 \/ \E loc \in allLocations : inRoom(loc) = m

\* makeSearchAction gives fovTree a branch for a location only when the
\* location has no entry in the registry, or one or two
SearchTreeTotal(byLC) ==
    \A loc \in allLocations : Len(VicsHere(byLC, loc)) \in {0, 1, 2}

\* What the history keeps of a call of makeVictims: the number of worlds
\* built so far, the exception that ended the call, the registry before the
\* call, the lengths of the two lists, the largest number of victims declared
\* in one room, the number of victims the call added to victimAgents and the
\* arguments (loc, color) of the calls of _makeVictim that returned.
BuildRecord(n, pre, vLocations, colors, out) ==
    [n |-> n, err |-> out.err, pre |-> pre,
     lenL |-> Len(vLocations), lenC |-> Len(colors),
     roomMax |-> RoomMax(vLocations),
     created |-> Len(out.victimAgents) - Len(pre.victimAgents),
     made |-> [i \in 1..(Len(out.victimAgents) - Len(pre.victimAgents)) |->
                  [loc |-> vLocations[i], color |-> colors[i]]]]

NoBuild ==
    [n |-> 0, err |-> "none", pre |-> EmptyRegistry, lenL |-> 0, lenC |-> 0,
     roomMax |-> 0, created |-> 0, made |-> <<>>]

NoCall == [fn |-> "none", args |-> <<>>, result |-> <<>>]

----------------------------------------------------------------------------
(* Observation model: normalizeD / makeAllFOVDistrs *)

RECURSIVE SumValues(_, _)
SumValues(d, keys) ==
    IF keys = {} THEN 0
    ELSE LET k == CHOOSE x \in keys : TRUE
         IN  d[k] + SumValues(d, keys \ {k})

\* normalizeD with the sum taken over the colors only
normalizeD_skipNone(d) ==
    LET sammy == SumValues(d, DOMAIN d \ {"none"})
    IN  [c \in DOMAIN d |-> <<d[c], sammy>>]

\* The probability p / sammy of every outcome, as the pair <<p, sammy>>.
normalizeD(d) ==
    LET sammy == SumValues(d, DOMAIN d)
    IN  [c \in DOMAIN d |-> <<d[c], sammy>>]

\* the distribution of two victims without the doubling for equal colors
TwoVictimD_noDouble(c1, c2) ==
    LET seen == [c \in {c1, c2} |-> COLOR_FOV_P[c]]
        rest == FOV_ONE - SumValues(seen, DOMAIN seen)
    IN  [c \in {c1, c2, "none"} |-> IF c = "none" THEN rest ELSE seen[c]]

\* d[c1] = ..., d[c2] = ..., then d['none'] = 1 - sum(d.values())
TwoVictimD(c1, c2) ==
    LET seen == [c \in {c1, c2} |->
                    IF c1 = c2 THEN 2 * COLOR_FOV_P[c1] ELSE COLOR_FOV_P[c]]
        rest == FOV_ONE - SumValues(seen, DOMAIN seen)
    IN  [c \in {c1, c2, "none"} |-> IF c = "none" THEN rest ELSE seen[c]]

\* makeAllFOVDistrs with, for one victim, none = 1 - sum(COLOR_FOV_P.values())
makeAllFOVDistrs_sumRest(numVicsInRoom) ==
    IF numVicsInRoom = 0
    THEN normalizeD([c \in {"none"} |-> FOV_ONE])
    ELSE IF numVicsInRoom = 1
    THEN [c1 \in ColorSet |->
            normalizeD([c \in {c1, "none"} |->
                          IF c = c1 THEN COLOR_FOV_P[c1]
                          ELSE FOV_ONE - SumValues(COLOR_FOV_P, ColorSet)])]
    ELSE [c1 \in ColorSet |-> [c2 \in ColorSet |-> normalizeD(TwoVictimD(c1, c2))]]

makeAllFOVDistrs(numVicsInRoom) ==
    IF numVicsInRoom = 0
    THEN normalizeD([c \in {"none"} |-> FOV_ONE])
    ELSE IF numVicsInRoom = 1
    THEN [c1 \in ColorSet |->
            normalizeD([c \in {c1, "none"} |->
                          IF c = c1 THEN COLOR_FOV_P[c1] ELSE FOV_ONE - COLOR_FOV_P[c1]])]
    ELSE [c1 \in ColorSet |-> [c2 \in ColorSet |-> normalizeD(TwoVictimD(c1, c2))]]

\* fovTree with the branch of a Green victim for a location without victims
fovTree_emptyAsGreen(byLC, world, loc) ==
    LET vicsHere     == VicsHere(byLC, loc)
        numVicsInLoc == Len(vicsHere)
    IN  IF numVicsInLoc = 0 THEN makeAllFOVDistrs(1)["Green"]
        ELSE IF numVicsInLoc = 1
        THEN makeAllFOVDistrs(1)[world[vicsHere[1].vicAgent].color]
        ELSE makeAllFOVDistrs(2)[world[vicsHere[1].vicAgent].color]
                                [world[vicsHere[2].vicAgent].color]

\* The leaf of fovTree selected in a state: the distribution over the new
\* field of view for an agent in loc, given the victims' current colors.
fovTree(byLC, world, loc) ==
    LET vicsHere     == VicsHere(byLC, loc)
        numVicsInLoc == Len(vicsHere)
    IN  IF numVicsInLoc = 0 THEN makeAllFOVDistrs(0)
        ELSE IF numVicsInLoc = 1
        THEN makeAllFOVDistrs(1)[world[vicsHere[1].vicAgent].color]
        ELSE makeAllFOVDistrs(2)[world[vicsHere[1].vicAgent].color]
                                [world[vicsHere[2].vicAgent].color]

\* the outcomes a step can produce from a distribution
Support(dist) == {c \in DOMAIN dist : dist[c][1] * dist[c][2] > 0}

----------------------------------------------------------------------------
(* Reward assembler: makeVictimReward *)

\* rwd_dict is None ([given |-> FALSE]) or a table over some of the colors
NoRwdDict == [given |-> FALSE, table |-> EmptyMap]

\* rwdOf with the table ignored
rwdOf_defaultOnly(dict, color) == COLOR_REWARDS[color]

\* rwd_dict[color] if rwd_dict is not None and color in rwd_dict
\* else Victims.COLOR_REWARDS[color]
rwdOf(dict, color) ==
    IF dict.given /\ color \in DOMAIN dict.table
    THEN dict.table[color] ELSE COLOR_REWARDS[color]

\* makeVictimReward with the colors taken in the opposite order
makeVictimReward_reversed(dict) ==
    [i \in DOMAIN RescuableColors |->
        [key |-> RescuableColors[Len(RescuableColors) + 1 - i],
         rwd |-> IF dict.given
                    /\ RescuableColors[Len(RescuableColors) + 1 - i] \in DOMAIN dict.table
                 THEN dict.table[RescuableColors[Len(RescuableColors) + 1 - i]]
                 ELSE COLOR_REWARDS[RescuableColors[Len(RescuableColors) + 1 - i]]]]

\* The nested tree {'if': saved_c1, True: set r1, False: {'if': saved_c2, ...
\* False: noChange}} as the list of its 'if' nodes from the root down.
makeVictimReward(dict) ==
    [i \in DOMAIN RescuableColors |->
        [key |-> RescuableColors[i], rwd |-> rwdOf(dict, RescuableColors[i])]]

\* The index of the node whose True branch the tree takes for the flags,
\* or 0 when it ends in noChangeMatrix(rKey).
RECURSIVE rtreeBranch(_, _, _)
rtreeBranch(tree, i, flags) ==
    IF i > Len(tree) THEN 0
    ELSE IF flags[tree[i].key] THEN i
    ELSE rtreeBranch(tree, i + 1, flags)

rtreeReward(tree, flags, old) ==
    LET b == rtreeBranch(tree, 1, flags)
    IN  IF b = 0 THEN old ELSE tree[b].rwd

rtreeColor(tree, flags) ==
    LET b == rtreeBranch(tree, 1, flags)
    IN  IF b = 0 THEN "none" ELSE tree[b].key

----------------------------------------------------------------------------
(* Legality trees *)

\* the legality tree of aim and approach with its two leaves exchanged
PreTriageLegal_swapped == IF vicInFOV = "none" THEN TRUE ELSE FALSE

\* makePreTriageActions: legal if there is a victim in the field of view
PreTriageLegal == IF vicInFOV = "none" THEN FALSE ELSE TRUE

\* the triage legality tree without its test of the color
TriageLegal_anyShared == vicInCH = vicApproached

\* makeTriageAction: crosshair equals approached, and crosshair is Gold or Green
TriageLegal ==
    IF vicInCH = vicApproached
    THEN (IF vicInCH = "Gold" THEN TRUE ELSE IF vicInCH = "Green" THEN TRUE ELSE FALSE)
    ELSE FALSE

----------------------------------------------------------------------------
(* Dynamics compiled by makeTriageAction for the victim of one registry
   entry e = [loc, color, vicObj]; st is the victim's state before the step *)

\* the test of the triage trees without the crosshair color
TriageMatch_anyColor(e) == humanLoc = e.loc

TriageMatch(e) == vicInCH = e.color /\ humanLoc = e.loc

\* the color tree without its test of danger
triageColorDyn_noDangerTest(e, st) ==
    IF TriageMatch(e) THEN "White" ELSE st.color

triageColorDyn(e, st) ==
    IF TriageMatch(e) /\ st.danger = 1 THEN "White" ELSE st.color

\* the savior tree with 'none' instead of no change in its else branch
triageSaviorDyn_elseNone(e, st) ==
    IF TriageMatch(e) /\ st.danger = 1 THEN humanName ELSE "none"

triageSaviorDyn(e, st) ==
    IF TriageMatch(e) /\ st.danger = 1 THEN humanName ELSE st.savior

\* the danger tree with the decrement in both branches
triageDangerDyn_all(e, st) == st.danger - 1

triageDangerDyn(e, st) ==
    IF TriageMatch(e) THEN st.danger - 1 ELSE st.danger

\* The victims' state after a triage step: every victim that is the value of
\* a registry entry is updated by its three trees, the others have no dynamics.
triageWorld ==
    [v \in DOMAIN vic |->
        IF v \in LookupVictims(victimsByLocAndColor)
        THEN LET i == CHOOSE j \in DOMAIN victimsByLocAndColor :
                        victimsByLocAndColor[j].vicObj.vicAgent = v
                 e == victimsByLocAndColor[i]
             IN  [vic[v] EXCEPT !.color  = triageColorDyn(e, vic[v]),
                                !.savior = triageSaviorDyn(e, vic[v]),
                                !.danger = triageDangerDyn(e, vic[v])]
        ELSE vic[v]]

\* makeSavedColorDyn reading the savior before the step in both tests
makeSavedColorDyn_noFuture(color, newVic) ==
    LET colorVics == {victimsByLocAndColor[i].vicObj.vicAgent :
                        i \in {j \in DOMAIN victimsByLocAndColor :
                                 victimsByLocAndColor[j].color = color}}
    IN  IF colorVics = {} THEN saved[color]
        ELSE IF \E v \in colorVics :
                    vic[v].savior = "none" /\ vic[v].savior = humanName
             THEN TRUE
             ELSE saved[color]

\* makeSavedColorDyn: the saved_<color> flag after a triage step that takes
\* the victims from vic to newVic
makeSavedColorDyn(color, newVic) ==
    LET colorVics == {victimsByLocAndColor[i].vicObj.vicAgent :
                        i \in {j \in DOMAIN victimsByLocAndColor :
                                 victimsByLocAndColor[j].color = color}}
    IN  IF colorVics = {} THEN saved[color]
        ELSE IF \E v \in colorVics :
                    vic[v].savior = "none" /\ newVic[v].savior = humanName
             THEN TRUE
             ELSE saved[color]

\* resetJustSavedFlags that leaves the flags as they are
resetJustSavedFlags_keep == saved

\* resetJustSavedFlags
resetJustSavedFlags == [c \in RescuableSet |-> FALSE]

----------------------------------------------------------------------------
(* The world after makeWorld / setupTriager *)

UnobsKeys == allLocations \X {"Gold", "Green"}

\* the actions setupTriager adds for the human: makePreTriageActions and
\* makeTriageAction
TriagerActions == {"actCH", "actApproach", "triage"}

\* The belief variables start as a draw from the prior (True with
\* probability COLOR_PRIOR_P[color]); the model takes the two uniform draws.
UnobsInits == {[k \in UnobsKeys |-> b] : b \in BOOLEAN}

ObsSettings == {"None", "False", "True"}

\* 'not Victims.FULL_OBS' with None taken for set
notFULL_OBS_isNotNone == FULL_OBS # "None"

\* 'not Victims.FULL_OBS': None and False are false
notFULL_OBS == FULL_OBS \in {"None", "False"}

\* createObsVars4Victims: the values the belief variables can start with,
\* False under full observability and a draw from the prior otherwise
createObsVars4Victims ==
    IF FULL_OBS = "True" THEN {[k \in UnobsKeys |-> FALSE]} ELSE UnobsInits

\* the actions of the human with the search action in every world
worldActions_withSearch == TriagerActions \cup {"search"}

\* the actions of the human in the world makeWorld returns: those of
\* setupTriager, and search unless Victims.FULL_OBS
worldActions ==
    IF notFULL_OBS THEN TriagerActions \cup {"search"} ELSE TriagerActions

\* msgreader.__init__: no message, no observation, no portal, mission not
\* running; nlines counts the lines add_all_messages has processed and err
\* is the exception that ended it, if any
msgreader_init ==
    [mission_running |-> FALSE, messages |-> <<>>, observations |-> <<>>,
     doors |-> <<>>, nlines |-> 0, err |-> "none"]

\* the replay files an analyzer can be given
FileNames == 1..MaxFiles

\* RewardModelAnalyzer.__init__: the replay files, no result, no trajectory;
\* learned counts the runs of the learning algorithm
RewardModelAnalyzer_init(replays) ==
    [files |-> replays, results |-> EmptyMap, trajectories |-> EmptyMap, learned |-> 0]

\* an output directory without result or trajectory files
NoCache == [f \in FileNames |-> "absent"]

\* the message reader and the analyzer as constructed, not used
Offline ==
    /\ reader = msgreader_init
    /\ analyzer = RewardModelAnalyzer_init(<<>>)
    /\ cache = NoCache

\* The world makeWorld returns, with use_unobserved at its default True, for
\* Victims.FULL_OBS False (as from_data_v4 sets it) or True.
Init ==
    /\ Offline
    /\ \E n \in 0..MaxVictims :
         \E vLocations \in [1..n -> allLocations], colors \in [1..n -> RescuableSet] :
           \E times \in ReqdTimeTables :
              LET reg == makeVictims(EmptyRegistry, vLocations, colors, times)
              IN  /\ victimAgents = reg.victimAgents
                  /\ victimsByLocAndColor = reg.victimsByLocAndColor
                  /\ vic = reg.world
                  /\ reqdTimes = times
                  /\ build = BuildRecord(1, EmptyRegistry, vLocations, colors, reg)
    /\ COLOR_FOV_P = makeWorldFOV_P
    /\ call = NoCall
    /\ FULL_OBS \in {"False", "True"}
    /\ actions = worldActions
    /\ humanLoc = initLoc
    /\ vicInFOV = "none"
    /\ vicInCH = "none"
    /\ vicApproached = "none"
    /\ saved = [c \in RescuableSet |-> FALSE]
    /\ unobs \in (IF notFULL_OBS THEN createObsVars4Victims ELSE {EmptyMap})
    /\ reward = 0
    /\ rwd_dict = NoRwdDict
    /\ rtree = makeVictimReward(NoRwdDict)
    /\ lastAct = "init"
    /\ numRewardSet = [c \in RescuableSet |-> 0]
    /\ scen = 0

\* The reward tree is evaluated on the state after the step.
RewardStep(newSaved) ==
    /\ reward' = rtreeReward(rtree, newSaved, reward)
    /\ numRewardSet' = [c \in RescuableSet |->
                          IF rtreeColor(rtree, newSaved) = c
                          THEN numRewardSet[c] + 1 ELSE numRewardSet[c]]

Static == UNCHANGED <<victimAgents, victimsByLocAndColor, reqdTimes, humanLoc,
                      rwd_dict, rtree, COLOR_FOV_P, build, call, FULL_OBS, actions,
          reader, analyzer, cache>>

\* the scenario of an agent facing a Gold victim that one triage step rescues
ScenarioStart ==
    /\ vicInFOV = "Gold"
    /\ \E i \in DOMAIN victimsByLocAndColor :
         LET e == victimsByLocAndColor[i]
         IN  /\ e.loc = humanLoc /\ e.color = "Gold"
             /\ vic[e.vicObj.vicAgent].color = "Gold"
             /\ vic[e.vicObj.vicAgent].danger = 1
             /\ vic[e.vicObj.vicAgent].savior = "none"

\* makeSearchAction: search has no legality tree
SearchLegal == TRUE

\* the crosshair tree of search with the field of view for the constant
searchCrosshairDyn_fov == vicInFOV

\* makeSearchAction: reset the crosshair to none
searchCrosshairDyn == "none"

\* the belief tree of search with False for no change
searchObsDyn_reset(k, newFov) ==
    IF k[1] = humanLoc /\ newFov = k[2] THEN TRUE ELSE FALSE

\* makeSearchAction: the tree of the belief variable k = <<loc, color>>,
\* which reads the field of view after the step
searchObsDyn(k, newFov) ==
    IF k[1] = humanLoc /\ newFov = k[2] THEN TRUE ELSE unobs[k]

\* search with the dynamics of triage on the victims' keys
searchWorld_triage ==
    [v \in DOMAIN vic |-> [vic[v] EXCEPT !.danger = vic[v].danger - 1]]

\* makeSearchAction sets no dynamics on a key of a victim
searchWorld == vic

\* makeSearchAction
Search ==
    /\ "search" \in actions
    /\ SearchLegal
    /\ \E newFov \in Support(fovTree(victimsByLocAndColor, vic, humanLoc)) :
         /\ vicInFOV' = newFov
         /\ unobs' = [k \in DOMAIN unobs |-> searchObsDyn(k, newFov)]
    /\ vicInCH' = searchCrosshairDyn
    /\ vic' = searchWorld
    /\ saved' = resetJustSavedFlags
    /\ RewardStep(saved')
    /\ lastAct' = "search"
    /\ scen' = 0
    /\ UNCHANGED vicApproached
    /\ Static

\* the tree of the pre-triage actions with the constant none
preTriageDyn_none == "none"

\* makePreTriageActions: setToFeatureMatrix(key, fovKey), for the crosshair
\* key of actCH and the approached key of actApproach
preTriageDyn == vicInFOV

\* makePreTriageActions sets no dynamics on a key of a victim
preTriageWorld == vic

\* makePreTriageActions: the crosshair action
Aim ==
    /\ "actCH" \in actions
    /\ PreTriageLegal
    /\ vicInCH' = preTriageDyn
    /\ vic' = preTriageWorld
    /\ saved' = resetJustSavedFlags
    /\ RewardStep(saved')
    /\ lastAct' = "aim"
    /\ scen' = IF ScenarioStart THEN 1 ELSE 0
    /\ UNCHANGED <<vicInFOV, vicApproached, unobs>>
    /\ Static

\* makePreTriageActions: the approach action
Approach ==
    /\ "actApproach" \in actions
    /\ PreTriageLegal
    /\ vicApproached' = preTriageDyn
    /\ vic' = preTriageWorld
    /\ saved' = resetJustSavedFlags
    /\ RewardStep(saved')
    /\ lastAct' = "approach"
    /\ scen' = IF scen = 1 THEN 2 ELSE 0
    /\ UNCHANGED <<vicInFOV, vicInCH, unobs>>
    /\ Static

\* triage with the crosshair reset as search resets it
triageHumanDyn_resetCH ==
    [fov |-> vicInFOV, ch |-> "none", approached |-> vicApproached, unobs |-> unobs]

\* makeTriageAction sets no dynamics on the field of view, the crosshair,
\* approached or a belief variable
triageHumanDyn ==
    [fov |-> vicInFOV, ch |-> vicInCH, approached |-> vicApproached, unobs |-> unobs]

\* makeTriageAction
Triage ==
    /\ "triage" \in actions
    /\ TriageLegal
    /\ \A i \in DOMAIN victimsByLocAndColor :
         TriageMatch(victimsByLocAndColor[i]) =>
            vic[victimsByLocAndColor[i].vicObj.vicAgent].danger > -MaxOverTriage
    /\ vic' = triageWorld
    /\ saved' = [c \in RescuableSet |-> makeSavedColorDyn(c, vic')]
    /\ RewardStep(saved')
    /\ lastAct' = "triage"
    /\ scen' = IF scen = 2 THEN 3 ELSE 0
    /\ vicInFOV' = triageHumanDyn.fov
    /\ vicInCH' = triageHumanDyn.ch
    /\ vicApproached' = triageHumanDyn.approached
    /\ unobs' = triageHumanDyn.unobs
    /\ Static

\* makeExpiryDynamics: a Green or Gold victim expires and turns Red
Expire ==
    /\ \E v \in DOMAIN vic :
         /\ vic[v].color \in RescuableSet
         /\ vic' = [vic EXCEPT ![v].color = "Red"]
    /\ lastAct' = "expire"
    /\ UNCHANGED <<vicInFOV, vicInCH, vicApproached, saved, unobs, reward,
                   numRewardSet, scen>>
    /\ Static

Next == Search \/ Aim \/ Approach \/ Triage \/ Expire

Spec == Init /\ [][Next]_vars

----------------------------------------------------------------------------
(* The reward assembler on its own: makeVictimReward compiled for a reward
   table, and the compiled tree evaluated on arbitrary just-saved flags *)

\* LOW_VAL, MEAN_VAL and HIGH_VAL of the reward models
RwdWeights == {10, 105, 200}

RwdDicts ==
    {NoRwdDict} \cup
    {[given |-> TRUE, table |-> t] :
        t \in UNION {[S -> RwdWeights] : S \in SUBSET RescuableSet}}

InitReward ==
    /\ Offline
    /\ victimAgents = <<>>
    /\ victimsByLocAndColor = <<>>
    /\ vic = EmptyMap
    /\ reqdTimes = [c \in RescuableSet |-> 1]
    /\ COLOR_FOV_P = makeWorldFOV_P
    /\ build = NoBuild
    /\ call = NoCall
    /\ FULL_OBS = "False"
    /\ actions = TriagerActions
    /\ humanLoc = initLoc
    /\ vicInFOV = "none"
    /\ vicInCH = "none"
    /\ vicApproached = "none"
    /\ saved \in [RescuableSet -> BOOLEAN]
    /\ unobs = [k \in UnobsKeys |-> FALSE]
    /\ reward \in {0, 10}
    /\ rwd_dict \in RwdDicts
    /\ rtree = <<>>
    /\ lastAct = "init"
    /\ numRewardSet = [c \in RescuableSet |-> 0]
    /\ scen = 0

\* makeVictimReward(agent, model, rwd_dict)
CompileReward ==
    /\ lastAct = "init"
    /\ rtree' = makeVictimReward(rwd_dict)
    /\ lastAct' = "makeVictimReward"
    /\ UNCHANGED <<victimAgents, victimsByLocAndColor, vic, reqdTimes, humanLoc,
                   vicInFOV, vicInCH, vicApproached, saved, unobs, reward,
                   rwd_dict, numRewardSet, scen, COLOR_FOV_P, build, call,
                   FULL_OBS, actions,
          reader, analyzer, cache>>

\* the compiled tree applied to the state
EvalReward ==
    /\ lastAct = "makeVictimReward"
    /\ RewardStep(saved)
    /\ lastAct' = "reward"
    /\ UNCHANGED <<victimAgents, victimsByLocAndColor, vic, reqdTimes, humanLoc,
                   vicInFOV, vicInCH, vicApproached, saved, unobs,
                   rwd_dict, rtree, scen, COLOR_FOV_P, build, call, FULL_OBS, actions,
          reader, analyzer, cache>>

NextReward == CompileReward \/ EvalReward

SpecReward == InitReward /\ [][NextReward]_vars

----------------------------------------------------------------------------
(* World building on its own: makeWorld creates a new world and calls
   setupTriager, which calls makeVictims on the class-level registry; a
   process builds a first and then a second world *)

Worlds == <<"first", "second">>

\* the state shared by the specifications that do not step the world
Idle ==
    /\ reqdTimes = [c \in RescuableSet |-> 1]
    /\ humanLoc = initLoc
    /\ vicInFOV = "none"
    /\ vicInCH = "none"
    /\ vicApproached = "none"
    /\ saved = [c \in RescuableSet |-> FALSE]
    /\ unobs = [k \in UnobsKeys |-> FALSE]
    /\ reward = 0
    /\ rwd_dict = NoRwdDict
    /\ rtree = <<>>
    /\ lastAct = "init"
    /\ numRewardSet = [c \in RescuableSet |-> 0]
    /\ scen = 0
    /\ FULL_OBS = "False"

InitBuild ==
    /\ Offline
    /\ Idle
    /\ victimAgents = <<>>
    /\ victimsByLocAndColor = <<>>
    /\ vic = EmptyMap
    /\ actions = {}
    /\ COLOR_FOV_P = makeWorldFOV_P
    /\ build = NoBuild
    /\ call = NoCall

IdleUnchanged ==
    UNCHANGED <<reqdTimes, humanLoc, vicInFOV, vicInCH, vicApproached, saved, unobs,
                reward, rwd_dict, rtree, numRewardSet, scen, COLOR_FOV_P, FULL_OBS,
          reader, analyzer, cache>>

\* The lists a world is declared with: every list of nl locations and of nc
\* colors when the lengths agree, one list of each length when they do not.
DeclaredLocations(nl, nc) ==
    IF nl = nc THEN [1..nl -> allLocations] ELSE {[i \in 1..nl |-> initLoc]}

\* Red stands for the colors that are no key of the tables (Red and White)
DeclaredColorSet == RescuableSet \cup {"Red"}

DeclaredColors(nl, nc) ==
    IF nl = nc THEN [1..nc -> DeclaredColorSet] ELSE {[i \in 1..nc |-> "Green"]}

\* makeWorld up to the end of setupTriager: World() is a new, empty world; the
\* registry is the one the class holds; the pre-triage and triage actions are
\* added when makeVictims returns
MakeWorld ==
    /\ build.n < Len(Worlds)
    /\ \E nl \in 0..MaxDeclared, nc \in 0..MaxDeclared :
         \E vLocations \in DeclaredLocations(nl, nc), colors \in DeclaredColors(nl, nc) :
            LET pre == [victimAgents |-> victimAgents,
                        victimsByLocAndColor |-> victimsByLocAndColor,
                        world |-> EmptyMap, err |-> "none"]
                out == makeVictims(pre, vLocations, colors, reqdTimes)
            IN  /\ victimAgents' = out.victimAgents
                /\ victimsByLocAndColor' = out.victimsByLocAndColor
                /\ vic' = out.world
                /\ build' = BuildRecord(build.n + 1, pre, vLocations, colors, out)
                /\ actions' = IF out.err = "none" THEN TriagerActions ELSE {}
    /\ lastAct' = "makeWorld"
    /\ UNCHANGED call
    /\ IdleUnchanged

NextBuild == MakeWorld

SpecBuild == InitBuild /\ [][NextBuild]_vars

----------------------------------------------------------------------------
(* The observation section of makeWorld on its own: after setupTriager has
   built the victims, makeWorld creates the belief variables and the search
   action, depending on Victims.FULL_OBS and its argument use_unobserved *)

InitObs ==
    /\ Offline
    /\ \E n \in 0..MaxVictims :
         \E vLocations \in [1..n -> allLocations], colors \in [1..n -> RescuableSet] :
            LET reg == makeVictims(EmptyRegistry, vLocations, colors,
                                   [c \in RescuableSet |-> 1])
            IN  /\ victimAgents = reg.victimAgents
                /\ victimsByLocAndColor = reg.victimsByLocAndColor
                /\ vic = reg.world
                /\ build = BuildRecord(1, EmptyRegistry, vLocations, colors, reg)
    /\ reqdTimes = [c \in RescuableSet |-> 1]
    /\ COLOR_FOV_P = makeWorldFOV_P
    /\ call = NoCall
    /\ FULL_OBS \in ObsSettings
    /\ actions = TriagerActions
    /\ humanLoc = initLoc
    /\ vicInFOV = "none"
    /\ vicInCH = "none"
    /\ vicApproached = "none"
    /\ saved = [c \in RescuableSet |-> FALSE]
    /\ unobs = EmptyMap
    /\ reward = 0
    /\ rwd_dict = NoRwdDict
    /\ rtree = makeVictimReward(NoRwdDict)
    /\ lastAct = "init"
    /\ numRewardSet = [c \in RescuableSet |-> 0]
    /\ scen = 0

\* makeWorld, 'if not Victims.FULL_OBS:' and the block under it
MakeObservation ==
    /\ lastAct = "init"
    /\ \E use_unobserved \in BOOLEAN :
         IF notFULL_OBS
         THEN /\ IF use_unobserved
                 THEN unobs' \in createObsVars4Victims
                 ELSE unobs' = unobs
              /\ actions' = actions \cup {"search"}
         ELSE UNCHANGED <<unobs, actions>>
    /\ lastAct' = "makeWorld"
    /\ UNCHANGED <<victimAgents, victimsByLocAndColor, vic, build, call,
                   reqdTimes, humanLoc, vicInFOV, vicInCH, vicApproached, saved,
                   reward, rwd_dict, rtree, numRewardSet, scen, COLOR_FOV_P, FULL_OBS,
          reader, analyzer, cache>>

NextObs == MakeObservation

SpecObs == InitObs /\ [][NextObs]_vars

----------------------------------------------------------------------------
(* Lookups in the registry of a world that was built *)

InitLookup ==
    /\ Offline
    /\ Idle
    /\ \E n \in 0..MaxDeclared :
         \E vLocations \in [1..n -> allLocations], colors \in [1..n -> RescuableSet] :
            LET reg == makeVictims(EmptyRegistry, vLocations, colors, reqdTimes)
            IN  /\ victimAgents = reg.victimAgents
                /\ victimsByLocAndColor = reg.victimsByLocAndColor
                /\ vic = reg.world
                /\ build = BuildRecord(1, EmptyRegistry, vLocations, colors, reg)
    /\ COLOR_FOV_P = makeWorldFOV_P
    /\ call = NoCall
    /\ actions = TriagerActions

\* getVicName(loc, color)
GetVicName ==
    /\ call.fn = "none"
    /\ \E loc \in allLocations, color \in ColorSet :
         call' = [fn |-> "getVicName", args |-> <<loc, color>>,
                  result |-> getVicName(victimsByLocAndColor, loc, color)]
    /\ lastAct' = "getVicName"
    /\ UNCHANGED <<victimAgents, victimsByLocAndColor, vic, build, actions>>
    /\ IdleUnchanged

NextLookup == GetVicName

SpecLookup == InitLookup /\ [][NextLookup]_vars

----------------------------------------------------------------------------
(* The observation model on its own: the distribution makeAllFOVDistrs
   emits for a room population, for detection probabilities drawn from a
   table of levels *)

RoomSizes == {0, 1, 2}
FOVLevels == {0, 2, 4, 5, 10}

InitFOV ==
    /\ Offline
    /\ Idle
    /\ victimAgents = <<>>
    /\ victimsByLocAndColor = <<>>
    /\ vic = EmptyMap
    /\ COLOR_FOV_P \in [ColorSet -> FOVLevels]
    /\ build = NoBuild
    /\ call = NoCall
    /\ actions = {}

\* makeAllFOVDistrs(fovKey, n), and the entry of its result for the colors
EmitFOV ==
    /\ call.fn = "none"
    /\ \E n \in RoomSizes :
         \E colors \in [1..n -> ColorSet] :
            call' = [fn |-> "makeAllFOVDistrs", args |-> colors,
                     result |-> IF n = 0 THEN makeAllFOVDistrs(0)
                                ELSE IF n = 1 THEN makeAllFOVDistrs(1)[colors[1]]
                                ELSE makeAllFOVDistrs(2)[colors[1]][colors[2]]]
    /\ lastAct' = "makeAllFOVDistrs"
    /\ UNCHANGED <<victimAgents, victimsByLocAndColor, vic, build, actions>>
    /\ IdleUnchanged

NextFOV == EmitFOV

SpecFOV == InitFOV /\ [][NextFOV]_vars

----------------------------------------------------------------------------
(* The message reader: msgreader in src/atomic/parsing/message_reader.py *)

\* the state of a process that builds no world
NoWorld ==
    /\ Idle
    /\ victimAgents = <<>>
    /\ victimsByLocAndColor = <<>>
    /\ vic = EmptyMap
    /\ actions = {}
    /\ COLOR_FOV_P = makeWorldFOV_P
    /\ build = NoBuild
    /\ call = NoCall

NoWorldUnchanged ==
    UNCHANGED <<victimAgents, victimsByLocAndColor, vic, reqdTimes, humanLoc, vicInFOV,
                vicInCH, vicApproached, saved, unobs, reward, rwd_dict, rtree,
                lastAct, numRewardSet, scen, COLOR_FOV_P, build, FULL_OBS, actions>>

\* dict.update({k: v}) and del dict[k] on a dictionary held as a function
Upd(d, k, v) == [x \in DOMAIN d \cup {k} |-> IF x = k THEN v ELSE d[x]]
Del(d, k) == [x \in DOMAIN d \ {k} |-> d[x]]

\* door.__init__: the portal between room1 and room2 over x0..x1, z0..z1
door(x0, z0, x1, z1, room1, room2) ==
    [room1 |-> room1, room2 |-> room2, x0 |-> x0, x1 |-> x1, z0 |-> z0, z1 |-> z1]

\* Python's range(a, b)
range(a, b) == a..(b - 1)

\* door.at_this_door, with xrange = range(x0, x1+1) and zrange = range(z0, z1+1)
at_this_door(d, x, z) == x \in range(d.x0, d.x1 + 1) /\ z \in range(d.z0, d.z1 + 1)

\* the portals a portal file can list; the first two share the cell (1, 0)
Portals ==
    {door(0, 0, 1, 0, "R1", "R2"), door(1, 0, 2, 0, "R2", "R3"),
     door(3, 1, 3, 1, "R3", "R4")}

\* the lists of distinct portals load_doors can leave in msgreader.doors
PortalLists ==
    {l \in UNION {[1..n -> Portals] : n \in 0..MaxPortals} :
        \A i, j \in DOMAIN l : i # j => l[i] # l[j]}

\* the loop of add_door_rooms over self.doors from index i on; st holds the
\* message dictionary, doors_found and the exception raised, if any
RECURSIVE add_door_roomsFrom(_, _, _, _, _)
add_door_roomsFrom(st, doors, x, z, i) ==
    IF i > Len(doors) \/ st.err # "none" THEN st
    ELSE IF at_this_door(doors[i], x, z)
         THEN LET upd == Upd(Upd(st.mdict, "room1", doors[i].room1),
                             "room2", doors[i].room2)
              IN  IF "door_x" \notin DOMAIN upd
                  THEN [st EXCEPT !.mdict = upd, !.err = "KeyError"]
                  ELSE IF "door_z" \notin DOMAIN upd
                  THEN [st EXCEPT !.mdict = Del(upd, "door_x"), !.err = "KeyError"]
                  ELSE add_door_roomsFrom(
                          [st EXCEPT !.mdict = Del(Del(upd, "door_x"), "door_z"),
                                     !.doors_found = @ + 1],
                          doors, x, z, i + 1)
         ELSE add_door_roomsFrom(st, doors, x, z, i + 1)

\* add_door_rooms: the message dictionary it leaves and the exception it
\* raises, if any
add_door_rooms(msgdict, doors) ==
    LET x == IF "door_x" \in DOMAIN msgdict THEN msgdict["door_x"] ELSE 0
        z == IF "door_z" \in DOMAIN msgdict THEN msgdict["door_z"] ELSE 0
        st == add_door_roomsFrom([mdict |-> msgdict, doors_found |-> 0, err |-> "none"],
                                 doors, x, z, 1)
    IN  IF st.err # "none" THEN [mdict |-> st.mdict, err |-> st.err]
        ELSE IF st.doors_found = 0
        THEN [mdict |-> Del(Del(Upd(Upd(st.mdict, "room1", "null"), "room2", "null"),
                                "door_x"), "door_z"),
              err |-> "none"]
        ELSE [mdict |-> st.mdict, err |-> "none"]

\* the tagged fields of a door event at (x, z)
DoorDict(x, z) ==
    [sub_type |-> "Event:Door", open |-> TRUE, door_x |-> x, door_z |-> z]

\* msgreader.msg_types
msg_types ==
    <<"Event:Triage", "Event:Door", "Event:Lever", "Event:VictimsExpired",
      "Mission:VictimList", "Event:Beep", "FoV">>

\* a line of the log: its sub-type and the fields the reader uses
LogLine(k, x, z, obs, timer, victim) ==
    [kind |-> k, x |-> x, z |-> z, obs |-> obs, timer |-> timer, victim |-> victim]

LogLines ==
    {LogLine(k, 0, 0, 0, "", FALSE) :
        k \in {"Mission:VictimList", "Event:MissionState:Stop", "Event:Pause:true",
               "Event:Pause:false", "Event:Triage", "Event:Lever",
               "Event:VictimsExpired", "Event:Beep", "Event:Location"}}
    \cup {LogLine("Event:Door", x, 0, 0, "", FALSE) : x \in 0..MaxCoord}
    \cup {LogLine("state", 0, 0, 1, t, FALSE) : t \in {"", "9 : 59"}}
    \cup {LogLine("FoV", 0, 0, 1, "", v) : v \in BOOLEAN}

\* the substrings, among those the reader searches for, that a line holds
Substrings(line) ==
    {"data"} \cup
    CASE line.kind = "Mission:VictimList" -> {"mission_victim_list", "Mission:VictimList"}
      [] line.kind = "Event:MissionState:Stop" -> {"mission_state\":\"Stop"}
      [] line.kind = "Event:Pause:true" -> {"paused\":true"}
      [] line.kind = "Event:Pause:false" -> {"paused\":false"}
      [] line.kind = "state" -> {"observation_number"}
      [] line.kind = "FoV" -> IF line.victim THEN {"FoV", "victim"} ELSE {"FoV"}
      [] line.kind = "Event:Triage" -> {"Event:Triage", "victim"}
      [] line.kind = "Event:Location" -> {}
      [] OTHER -> {line.kind}

\* jtxt.find(s) > -1
Found(line, s) == s \in Substrings(line)

\* make_message: the mtype of the message it returns
make_message(jtxt) ==
    IF Found(jtxt, "Event:Triage") THEN "Event:Triage"
    ELSE IF Found(jtxt, "Event:Door") THEN "Event:Door"
    ELSE IF Found(jtxt, "Event:Lever") THEN "Event:Lever"
    ELSE IF Found(jtxt, "Event:VictimsExpired") THEN "Event:VictimsExpired"
    ELSE IF Found(jtxt, "Mission:VictimList") THEN "Mission:VictimList"
    ELSE IF Found(jtxt, "Event:Beep") THEN "NONE"
    ELSE IF Found(jtxt, "FoV") THEN "FoV"
    ELSE "NONE"

\* get_obs_timer: the timer of the first observation with the number, or ''
RECURSIVE get_obs_timerFrom(_, _, _, _)
get_obs_timerFrom(observations, obsnum, oidx, timer) ==
    IF oidx < 1 THEN timer
    ELSE get_obs_timerFrom(observations, obsnum, oidx - 1,
                           IF obsnum = observations[oidx][1]
                           THEN observations[oidx][2] ELSE timer)

get_obs_timer(observations, obsnum) ==
    get_obs_timerFrom(observations, obsnum, Len(observations), "")

Recorded(r, mtype, mdict) ==
    [r EXCEPT !.messages = Append(@, [mtype |-> mtype, mdict |-> mdict])]

\* add_message for a message of type mtype, past the test of msg_types and
\* mission_running
add_messageOfType(r, jtxt, mtype) ==
    IF mtype \in {"Event:Triage", "Event:Lever"}
    THEN Recorded(r, mtype, [sub_type |-> mtype, room |-> ""])
    ELSE IF mtype = "Event:Door"
    THEN LET res == add_door_rooms(DoorDict(jtxt.x, jtxt.z), r.doors)
         IN  IF res.err # "none" THEN [r EXCEPT !.err = res.err]
             ELSE Recorded(r, mtype, res.mdict)
    ELSE IF mtype = "Mission:VictimList"
    THEN Recorded(r, mtype, [sub_type |-> mtype, mission_victim_list |-> <<>>])
    ELSE IF mtype = "Event:Beep"
    THEN Recorded(r, mtype, [sub_type |-> mtype, room_name |-> "null"])
    ELSE IF mtype = "FoV"
    THEN LET timer == get_obs_timer(r.observations, jtxt.obs)
         IN  IF ~Found(jtxt, "victim") \/ timer = "" THEN r
             ELSE Recorded(r, mtype, [mission_timer |-> timer, victim_list |-> <<>>])
    ELSE Recorded(r, mtype, [sub_type |-> mtype])

\* add_message that records whether or not the mission is running
add_message_always(r, jtxt) ==
    LET mtype == make_message(jtxt)
    IN  IF \E i \in DOMAIN msg_types : msg_types[i] = mtype
        THEN add_messageOfType(r, jtxt, mtype)
        ELSE r

\* add_message: the reader after the line jtxt
add_message(r, jtxt) ==
    LET mtype == make_message(jtxt)
    IN  IF (\E i \in DOMAIN msg_types : msg_types[i] = mtype) /\ r.mission_running
        THEN add_messageOfType(r, jtxt, mtype)
        ELSE r

\* add_observation
add_observation(r, jtxt) ==
    [r EXCEPT !.observations = Append(@, <<jtxt.obs, jtxt.timer>>)]

\* one turn of the loop of add_all_messages, for the line line
add_all_messages(r, line) ==
    LET after ==
          IF Found(line, "mission_victim_list")
          THEN add_message([r EXCEPT !.mission_running = TRUE], line)
          ELSE IF Found(line, "mission_state\":\"Stop")
          THEN [r EXCEPT !.mission_running = FALSE]
          ELSE IF Found(line, "paused\":true")
          THEN [r EXCEPT !.mission_running = FALSE]
          ELSE IF Found(line, "paused\":false")
          THEN [r EXCEPT !.mission_running = TRUE]
          ELSE IF Found(line, "observation_number") /\ r.mission_running
          THEN add_observation(r, line)
          ELSE IF Found(line, "data")
          THEN add_message(r, line)
          ELSE r
    IN  IF after.err = "none" THEN [after EXCEPT !.nlines = @ + 1] ELSE after

\* the portals of the map the reader has loaded
LoadedPortals == <<door(0, 0, 1, 0, "R1", "R2"), door(1, 0, 2, 0, "R2", "R3")>>

InitReader ==
    /\ NoWorld
    /\ reader = [msgreader_init EXCEPT !.doors = LoadedPortals]
    /\ analyzer = RewardModelAnalyzer_init(<<>>)
    /\ cache = NoCache

\* add_all_messages reads the next line of the log
ReadLine ==
    /\ reader.err = "none"
    /\ reader.nlines < MaxLines
    /\ \E line \in LogLines :
         /\ reader' = add_all_messages(reader, line)
         /\ call' = [fn |-> "add_all_messages", args |-> line, result |-> <<>>]
    /\ NoWorldUnchanged
    /\ UNCHANGED <<analyzer, cache>>

NextReader == ReadLine

SpecReader == InitReader /\ [][NextReader]_vars

\* add_door_rooms on its own, for the portal lists a map can have
InitDoor ==
    /\ NoWorld
    /\ reader \in {[msgreader_init EXCEPT !.doors = l] : l \in PortalLists}
    /\ analyzer = RewardModelAnalyzer_init(<<>>)
    /\ cache = NoCache

AddDoorRooms ==
    /\ \E x \in 0..MaxCoord, z \in 0..MaxCoord :
         call' = [fn |-> "add_door_rooms", args |-> <<x, z>>,
                  result |-> add_door_rooms(DoorDict(x, z), reader.doors)]
    /\ NoWorldUnchanged
    /\ UNCHANGED <<reader, analyzer, cache>>

NextDoor == AddDoorRooms

SpecDoor == InitDoor /\ [][NextDoor]_vars

----------------------------------------------------------------------------
(* The analyzer's result cache: RewardModelAnalyzer in                      *)
(* src/atomic/model_learning/linear/analyzer.py                             *)

\* what the output directory holds for a replay file: not both files
\* ("absent"), both loadable ("valid"), or both present with the results
\* file or the trajectory file one that load_object fails on
CacheStates == {"absent", "valid", "bad_results", "bad_trajectory"}

\* an object load_object returned, and one made by the n-th learning run
Loaded == [origin |-> "loaded", run |-> 0]
Learned(n) == [origin |-> "learned", run |-> n]

\* _check_results without the test of what this session already holds
_check_results_diskOnly(an, disk, file_name) ==
    IF disk[file_name] = "absent" THEN [ret |-> "None", an |-> an]
    ELSE IF disk[file_name] = "bad_results" THEN [ret |-> "False", an |-> an]
    ELSE IF disk[file_name] = "bad_trajectory"
    THEN [ret |-> "False",
          an |-> [an EXCEPT !.results = Upd(@, file_name, Loaded)]]
    ELSE [ret |-> "True",
          an |-> [an EXCEPT !.results = Upd(@, file_name, Loaded),
                            !.trajectories = Upd(@, file_name, Loaded)]]

\* _check_results: what it returns and the analyzer it leaves
_check_results(an, disk, file_name) ==
    IF file_name \in DOMAIN an.results /\ file_name \in DOMAIN an.trajectories
    THEN [ret |-> "True", an |-> an]
    ELSE IF disk[file_name] = "absent" THEN [ret |-> "None", an |-> an]
    ELSE IF disk[file_name] = "bad_results" THEN [ret |-> "False", an |-> an]
    ELSE IF disk[file_name] = "bad_trajectory"
    THEN [ret |-> "False",
          an |-> [an EXCEPT !.results = Upd(@, file_name, Loaded)]]
    ELSE [ret |-> "True",
          an |-> [an EXCEPT !.results = Upd(@, file_name, Loaded),
                            !.trajectories = Upd(@, file_name, Loaded)]]

\* the loop of process_files over self.files.copy()
RECURSIVE process_filesFrom(_, _, _, _)
process_filesFrom(an, disk, todo, files) ==
    IF todo = <<>> THEN [an EXCEPT !.files = files]
    ELSE LET c == _check_results(an, disk, Head(todo))
         IN  process_filesFrom(c.an, disk, Tail(todo),
                               IF c.ret = "True" THEN files
                               ELSE Append(files, Head(todo)))

\* process_files up to the call of the replayer
process_files(an, disk) == process_filesFrom(an, disk, an.files, <<>>)

\* post_replay for the file of the parser, whose trajectory is long enough
\* for learning or not: the analyzer and the output directory it leaves
post_replay(an, disk, filename, long) ==
    LET c == _check_results(an, disk, filename)
    IN  IF c.ret = "True" THEN [an |-> c.an, disk |-> disk, outcome |-> "held"]
        ELSE IF ~long THEN [an |-> c.an, disk |-> disk, outcome |-> "short"]
        ELSE [an |-> [c.an EXCEPT
                        !.results = Upd(@, filename, Learned(c.an.learned + 1)),
                        !.trajectories = Upd(@, filename, Learned(c.an.learned + 1)),
                        !.learned = @ + 1],
              disk |-> [disk EXCEPT ![filename] = "valid"],
              outcome |-> "learned"]

\* the replay files the analyzer is given
AllFiles == [i \in 1..MaxFiles |-> i]

InitAnalyzer ==
    /\ NoWorld
    /\ reader = msgreader_init
    /\ analyzer = RewardModelAnalyzer_init(AllFiles)
    /\ cache \in [FileNames -> CacheStates]

\* process_files(fname): fname 0 stands for None; the result tells whether
\* the replayer is called
ProcessFiles ==
    /\ \E fname \in FileNames \cup {0} :
         LET an == process_files(analyzer, cache)
         IN  /\ analyzer' = an
             /\ call' = [fn |-> "process_files", args |-> <<fname>>,
                         result |-> (fname = 0
                                     \/ \E i \in DOMAIN an.files : an.files[i] = fname)]
    /\ NoWorldUnchanged
    /\ UNCHANGED <<reader, cache>>

CheckResults ==
    /\ \E f \in FileNames :
         LET c == _check_results(analyzer, cache, f)
         IN  /\ analyzer' = c.an
             /\ call' = [fn |-> "_check_results", args |-> <<f>>, result |-> c.ret]
    /\ NoWorldUnchanged
    /\ UNCHANGED <<reader, cache>>

\* the replayer calls post_replay with the parser of a replayed file
PostReplay ==
    /\ \E f \in FileNames, long \in BOOLEAN :
         LET r == post_replay(analyzer, cache, f, long)
         IN  /\ analyzer' = r.an
             /\ cache' = r.disk
             /\ call' = [fn |-> "post_replay", args |-> <<f, long>>,
                         result |-> r.outcome]
    /\ NoWorldUnchanged
    /\ UNCHANGED reader

NextAnalyzer == ProcessFiles \/ CheckResults \/ PostReplay

SpecAnalyzer == InitAnalyzer /\ [][NextAnalyzer]_vars

----------------------------------------------------------------------------
(* Properties *)

AgentActs == {"search", "aim", "approach", "triage"}

\* the color a victim was registered with
RegisteredColor(v) == victimAgents[v + 1].color

\* the victims of registered color c that have been rescued
Rescued(c) == {v \in DOMAIN vic : RegisteredColor(v) = c /\ vic[v].savior # "none"}

\* the victim registered at the agent's location with color c, if any
VictimHere(c) ==
    {victimsByLocAndColor[i].vicObj.vicAgent :
        i \in {j \in DOMAIN victimsByLocAndColor :
                 victimsByLocAndColor[j].loc = humanLoc
                 /\ victimsByLocAndColor[j].color = c}}

\* C1: in every step the danger of every victim does not increase, and a
\* victim's color becomes White in exactly the steps in which its danger
\* reaches 0.
C1_DangerAndWhite ==
    [][\A v \in DOMAIN vic :
          /\ vic'[v].danger <= vic[v].danger
          /\ (vic[v].color # "White" /\ vic'[v].color = "White")
               <=> (vic[v].danger # 0 /\ vic'[v].danger = 0)]_vars

\* a victim that needed two triage steps has been rescued by the second
C1_Witness ==
    /\ lastAct = "triage"
    /\ \E v \in DOMAIN vic :
         vic[v].color = "White" /\ vic[v].danger = 0 /\ reqdTimes[RegisteredColor(v)] = 2

C4_TriageLegality ==
    /\ vicInCH # vicApproached => ~TriageLegal
    /\ (vicInCH = vicApproached /\ vicInCH \in {"White", "Red", "none"}) => ~TriageLegal
    /\ (vicInCH = vicApproached /\ vicInCH \in {"Gold", "Green"}) => TriageLegal

\* the agent aims at and has approached a rescued (White) victim
C4_Witness ==
    /\ vicInCH = "White" /\ vicApproached = "White"
    /\ \E v \in DOMAIN vic : vic[v].savior = humanName

\* C5: after a step of the agent a just-saved flag of color c is true only if
\* in that step the savior of a victim of color c changed from none to the
\* agent.
C5_JustSavedOnlyOnRescue ==
    [][lastAct' \in AgentActs =>
          \A c \in RescuableSet :
             saved'[c] => \E v \in DOMAIN vic :
                             /\ RegisteredColor(v) = c
                             /\ vic[v].savior = "none"
                             /\ vic'[v].savior = humanName]_vars

\* C6: per color, the reward has been set to the color's weight in as many
\* steps as victims of that color have been rescued.
C6_RewardOncePerRescue ==
    \A c \in RescuableSet : numRewardSet[c] = Cardinality(Rescued(c))

\* C7: at most one just-saved flag is true.
C7_OneJustSaved == ~(saved["Green"] /\ saved["Gold"])

\* a Gold victim has just been rescued in a room whose Green victim was
\* rescued before
C7_Witness ==
    /\ saved["Gold"]
    /\ \E v \in VictimHere("Green") : vic[v].savior = humanName

\* C8: from a state where the agent faces a Gold victim with danger 1 and no
\* savior, aim, approach and triage are legal in turn and leave the victim
\* White with the agent as savior, just_saved_Gold true and the reward at the
\* Gold weight.
C8_RescueScenario ==
    /\ ScenarioStart => PreTriageLegal
    /\ scen = 1 => PreTriageLegal /\ vicInCH = "Gold"
    /\ scen = 2 => TriageLegal
    /\ scen = 3 =>
         /\ VictimHere("Gold") # {}
         /\ \A v \in VictimHere("Gold") :
               vic[v].color = "White" /\ vic[v].savior = humanName
         /\ saved["Gold"]
         /\ reward = COLOR_REWARDS["Gold"]

C8_Witness == scen = 3 /\ lastAct = "triage"

\* the weight configured for a color: the table's when it has one
ConfiguredWeight(c) ==
    IF rwd_dict.given /\ c \in DOMAIN rwd_dict.table
    THEN rwd_dict.table[c] ELSE COLOR_REWARDS[c]

\* C9: the reward rule sets the reward to the weight of Green when
\* just_saved_Green is true, else to the weight of Gold when just_saved_Gold
\* is true, and leaves it unchanged when neither is.
C9_FirstMatchWins ==
    [][lastAct' = "reward" =>
          reward' = IF saved["Green"] THEN ConfiguredWeight("Green")
                    ELSE IF saved["Gold"] THEN ConfiguredWeight("Gold")
                    ELSE reward]_vars

\* both flags are true and the rule has taken the Green weight, which
\* differs from the Gold one
C9_Witness ==
    /\ lastAct = "reward"
    /\ saved["Green"] /\ saved["Gold"]
    /\ reward = ConfiguredWeight("Green")
    /\ ConfiguredWeight("Green") # ConfiguredWeight("Gold")

\* C10: the compiled reward tree has one node per rescuable color, whose
\* weight is the table's when the color is a key of the table and the
\* COLOR_REWARDS weight otherwise.
C10_TableOrDefault ==
    lastAct \in {"makeVictimReward", "reward"} =>
       /\ {rtree[i].key : i \in DOMAIN rtree} = RescuableSet
       /\ \A i \in DOMAIN rtree :
             rtree[i].rwd =
                IF rwd_dict.given /\ rtree[i].key \in DOMAIN rwd_dict.table
                THEN rwd_dict.table[rtree[i].key]
                ELSE COLOR_REWARDS[rtree[i].key]

\* a table with a weight for Gold only has been compiled
C10_Witness ==
    /\ lastAct = "makeVictimReward"
    /\ rwd_dict.given /\ DOMAIN rwd_dict.table = {"Gold"}
    /\ rwd_dict.table["Gold"] # COLOR_REWARDS["Gold"]

\* C11: aim and approach are legal exactly in the states whose field of
\* view is not none, and are taken only from such states.
C11_PreTriageLegality ==
    /\ [](PreTriageLegal <=> vicInFOV # "none")
    /\ [][lastAct' \in {"aim", "approach"} => vicInFOV # "none"]_vars

\* the agent has approached the victim in its field of view
C11_Witness == lastAct = "approach" /\ vicApproached = vicInFOV /\ vicInFOV # "none"

\* C12: search is legal and can step in every state; a search step sets the
\* crosshair to none and leaves approached unchanged.
C12_SearchFrame ==
    /\ [](SearchLegal /\ Support(fovTree(victimsByLocAndColor, vic, humanLoc)) # {})
    /\ [][lastAct' = "search" =>
            vicInCH' = "none" /\ vicApproached' = vicApproached]_vars

\* a search after an approach: approached is kept, the crosshair is none
C12_Witness ==
    lastAct = "search" /\ vicApproached # "none" /\ vicInCH = "none" /\ vicInFOV # "none"

\* C13: the probabilities of an emitted field-of-view distribution have one
\* nonzero denominator and numerators that sum to it: they sum to 1.
C13_SumsToOne ==
    call.fn = "makeAllFOVDistrs" =>
       LET d   == call.result
           num == [c \in DOMAIN d |-> d[c][1]]
       IN  \A c \in DOMAIN d :
              d[c][2] # 0 /\ SumValues(num, DOMAIN d) = d[c][2]

\* the distribution of a room with two victims of different colors, both
\* detected with positive probability
C13_Witness ==
    /\ call.fn = "makeAllFOVDistrs"
    /\ Len(call.args) = 2 /\ call.args[1] # call.args[2]
    /\ COLOR_FOV_P[call.args[1]] > 0 /\ COLOR_FOV_P[call.args[2]] > 0

\* C14: a call of makeVictims with lists of different lengths ends in an
\* AssertionError and leaves the victim list, the lookup and the world as
\* they were before the call.
C14_LengthMismatch ==
    (build.n >= 1 /\ build.lenL # build.lenC) =>
       /\ build.err = "AssertionError"
       /\ victimAgents = build.pre.victimAgents
       /\ victimsByLocAndColor = build.pre.victimsByLocAndColor
       /\ vic = build.pre.world

\* the second world is declared with more colors than locations, after a
\* first world with victims
C14_Witness ==
    /\ build.n = Len(Worlds) /\ build.lenL # build.lenC
    /\ build.lenL > 0 /\ build.lenC > 0
    /\ Len(victimAgents) > 0

\* C15: a call of makeVictims that ends in a KeyError leaves no victim of the
\* call in the victim list, the lookup or the world.
C15_NoPartialBuild ==
    build.err = "KeyError" =>
       /\ victimAgents = build.pre.victimAgents
       /\ victimsByLocAndColor = build.pre.victimsByLocAndColor
       /\ vic = build.pre.world

\* C16: a world declared with three or more victims in a room is not
\* built: makeVictims fails or the search tree cannot be compiled.
C16_ThreeInRoomFails ==
    (build.n >= 1 /\ build.roomMax >= 3) =>
       (build.err # "none" \/ ~SearchTreeTotal(victimsByLocAndColor))

\* C17: after a build on an empty registry every victim created is the one the lookup returns at
\* its own (location, color), and the lookup has as many entries as victims
\* were created.
C17_WriteOnce ==
    (build.n >= 1 /\ build.err = "none" /\ build.pre.victimAgents = <<>>) =>
       /\ Len(victimsByLocAndColor) = Len(victimAgents)
       /\ \A i \in DOMAIN victimAgents :
             \E j \in DOMAIN victimsByLocAndColor :
                /\ victimsByLocAndColor[j].loc = victimAgents[i].room
                /\ victimsByLocAndColor[j].color = victimAgents[i].color
                /\ victimsByLocAndColor[j].vicObj = victimAgents[i]

\* C18: after the second world is built the victim list and the lookup hold
\* only the victims that build created.
C18_SecondWorldOnly ==
    (build.n = Len(Worlds) /\ build.err = "none") =>
       /\ Len(victimAgents) = build.created
       /\ Len(victimsByLocAndColor) <= build.created

\* C20: a lookup of a (location, color) pair with no registered victim ends
\* in an error, never in a returned name.
C20_LookupMissReported ==
    (call.fn = "getVicName"
       /\ ~HasKey(victimsByLocAndColor, call.args[1], call.args[2]))
      => call.result.raised # "none"

\* C21: after the observation section of makeWorld, a world built under
\* full observability has no search action and no belief variable; a search
\* action or a belief variable is there only when FULL_OBS is not true.
C21_ObservationOnlyWhenPartial ==
    lastAct = "makeWorld" =>
       /\ FULL_OBS = "True" => ("search" \notin actions /\ DOMAIN unobs = {})
       /\ ("search" \in actions \/ DOMAIN unobs # {}) => FULL_OBS \in {"None", "False"}

\* a world with victims built under full observability
C21_Witness ==
    lastAct = "makeWorld" /\ FULL_OBS = "True" /\ Len(victimAgents) = MaxVictims

\* C22: every victim made by makeVictims starts with the color and location
\* it was declared with, danger and reward from the tables at its color, and
\* savior none.
C22_InitialVictimState ==
    lastAct = "init" =>
       /\ build.created = build.lenC
       /\ \A i \in 1..build.created :
             LET m == build.made[i]
             IN  vic[victimAgents[i].vicAgent] =
                    [color |-> m.color, loc |-> m.loc, danger |-> reqdTimes[m.color],
                     reward |-> COLOR_REWARDS[m.color], savior |-> "none"]

\* two victims of different colors in different rooms, with a required time
\* above the default
C22_Witness ==
    /\ lastAct = "init" /\ build.created = 2
    /\ build.made[1].color # build.made[2].color
    /\ build.made[1].loc # build.made[2].loc
    /\ reqdTimes["Gold"] = MaxReqdTime

\* the victim v is the registry's entry at (agent's location, crosshair color)
TriageTarget(v) ==
    \E i \in DOMAIN victimsByLocAndColor :
       /\ victimsByLocAndColor[i].loc = humanLoc
       /\ victimsByLocAndColor[i].color = vicInCH
       /\ victimsByLocAndColor[i].vicObj.vicAgent = v

\* C23: a triage step decrements the danger of the target victim by 1, sets
\* its color to White and its savior to the agent exactly when danger was 1,
\* and leaves every other victim as it was.
C23_TriageEffect ==
    [][lastAct' = "triage" =>
         \A v \in DOMAIN vic :
            IF TriageTarget(v)
            THEN /\ vic'[v].danger = vic[v].danger - 1
                 /\ IF vic[v].danger = 1
                    THEN vic'[v].color = "White" /\ vic'[v].savior = humanName
                    ELSE vic'[v].color = vic[v].color /\ vic'[v].savior = vic[v].savior
                 /\ vic'[v].loc = vic[v].loc /\ vic'[v].reward = vic[v].reward
            ELSE vic'[v] = vic[v]]_vars

\* a triage step that took a victim from danger 2 to 1 without rescuing it,
\* beside an untouched victim
C23_Witness ==
    /\ lastAct = "triage"
    /\ \E v, w \in DOMAIN vic :
          /\ v # w
          /\ TriageTarget(v) /\ vic[v].danger = 1 /\ vic[v].savior = "none"
          /\ vic[v].color = vicInCH
          /\ vic[w].danger = 2 /\ vic[w].savior = "none"

C25_OneRescuePerStep ==
    [][/\ Cardinality({v \in DOMAIN vic :
                         vic[v].savior = "none" /\ vic'[v].savior # "none"}) <= 1
       /\ Cardinality({v \in DOMAIN vic :
                         vic[v].color # "White" /\ vic'[v].color = "White"}) <= 1]_vars

\* a triage step rescued one of two victims of the agent's room that were
\* both one step from rescue
C25_Witness ==
    /\ lastAct = "triage"
    /\ \E v, w \in DOMAIN vic :
          /\ v # w /\ vic[v].loc = humanLoc /\ vic[w].loc = humanLoc
          /\ vic[v].color = "White" /\ vic[v].danger = 0 /\ vic[v].savior = humanName
          /\ vic[w].color \in RescuableSet /\ vic[w].danger = 1 /\ vic[w].savior = "none"

\* C26: in every reachable state the danger of every victim is at least 0.
C26_DangerNonNegative ==
    \A v \in DOMAIN vic : vic[v].danger >= 0

\* C27: an aim step copies the field of view into the crosshair and leaves
\* approached; an approach step copies it into approached and leaves the
\* crosshair; after either step every just-saved flag is false.
C27_PreTriageEffect ==
    [][/\ lastAct' = "aim" =>
             vicInCH' = vicInFOV /\ vicApproached' = vicApproached
       /\ lastAct' = "approach" =>
             vicApproached' = vicInFOV /\ vicInCH' = vicInCH
       /\ lastAct' \in {"aim", "approach"} =>
             \A c \in RescuableSet : ~saved'[c]]_vars

\* an aim step at a victim of another color than the one approached before
C27_Witness ==
    /\ lastAct = "aim"
    /\ vicInCH = vicInFOV /\ vicInCH # "none"
    /\ vicApproached # "none" /\ vicApproached # vicInCH

\* C28: a search step sets the belief variable of (L, C) to true exactly
\* when the agent is in L and the new field of view is C, and leaves it
\* otherwise; no step sets a true belief variable back to false.
C28_BeliefMonotone ==
    /\ [][lastAct' = "search" =>
            \A k \in UnobsKeys :
               unobs'[k] = IF k[1] = humanLoc /\ vicInFOV' = k[2]
                           THEN TRUE ELSE unobs[k]]_vars
    /\ [][\A k \in DOMAIN unobs : unobs[k] => unobs'[k]]_vars

\* a search that saw nothing, after an earlier search had seen the Green
\* victim of the room and none had seen a Gold one
C28_Witness ==
    /\ lastAct = "search" /\ vicInFOV = "none"
    /\ unobs[<<initLoc, "Green">>] /\ ~unobs[<<initLoc, "Gold">>]

\* C29: for two victims of colors C1 and C2 the distribution gives C1 twice
\* its detection probability when C1 = C2, gives each its own probability
\* when they differ, and gives none the rest; for Green and Gold at 0.2 each
\* it is Green 0.2, Gold 0.2, none 0.6.
C29_TwoVictimDistribution ==
    (call.fn = "makeAllFOVDistrs" /\ Len(call.args) = 2) =>
       LET d  == call.result
           c1 == call.args[1]
           c2 == call.args[2]
           seen == IF c1 = c2 THEN 2 * COLOR_FOV_P[c1]
                   ELSE COLOR_FOV_P[c1] + COLOR_FOV_P[c2]
       IN  /\ DOMAIN d = {c1, c2, "none"}
           /\ c1 = c2 => d[c1][1] * FOV_ONE = 2 * COLOR_FOV_P[c1] * d[c1][2]
           /\ c1 # c2 => /\ d[c1][1] * FOV_ONE = COLOR_FOV_P[c1] * d[c1][2]
                         /\ d[c2][1] * FOV_ONE = COLOR_FOV_P[c2] * d[c2][2]
           /\ d["none"][1] * FOV_ONE = (FOV_ONE - seen) * d["none"][2]
           /\ (c1 = "Green" /\ c2 = "Gold"
                 /\ COLOR_FOV_P["Green"] = 2 /\ COLOR_FOV_P["Gold"] = 2) =>
                 /\ d["Green"][1] * 10 = 2 * d["Green"][2]
                 /\ d["Gold"][1] * 10 = 2 * d["Gold"][2]
                 /\ d["none"][1] * 10 = 6 * d["none"][2]

\* the distribution of one Green and one Gold victim detected with
\* probability 0.2 each
C29_Witness ==
    /\ call.fn = "makeAllFOVDistrs"
    /\ call.args = <<"Green", "Gold">>
    /\ COLOR_FOV_P["Green"] = 2 /\ COLOR_FOV_P["Gold"] = 2

\* C30: every outcome of the distribution emitted for a room of one or two
\* victims, none included, has a probability between 0 and 1.
C30_ProbabilitiesInRange ==
    (call.fn = "makeAllFOVDistrs" /\ Len(call.args) >= 1) =>
       \A c \in DOMAIN call.result :
          /\ call.result[c][2] > 0
          /\ 0 <= call.result[c][1]
          /\ call.result[c][1] <= call.result[c][2]

C32_BranchForEveryLocation ==
    /\ [](\A loc \in allLocations :
            LET d == fovTree(victimsByLocAndColor, vic, loc)
            IN  /\ Support(d) # {}
                /\ VicsHere(victimsByLocAndColor, loc) = <<>> =>
                      (DOMAIN d = {"none"} /\ d["none"][1] = d["none"][2]))
    /\ [][(lastAct' = "search" /\ VicsHere(victimsByLocAndColor, humanLoc) = <<>>)
             => vicInFOV' = "none"]_vars

\* a search in a room without victims, in a world whose victims are all in
\* the other room
C32_Witness ==
    /\ lastAct = "search" /\ vicInFOV = "none"
    /\ VicsHere(victimsByLocAndColor, humanLoc) = <<>>
    /\ Len(victimAgents) = MaxVictims

C34_FullObsFrozen ==
    /\ [](FULL_OBS = "True" =>
            (vicInFOV = "none" /\ ~PreTriageLegal /\ ~TriageLegal))
    /\ [][FULL_OBS = "True" =>
            \A v \in DOMAIN vic :
               /\ vic'[v].color = vic[v].color
               /\ vic'[v].danger = vic[v].danger
               /\ vic'[v].savior = vic[v].savior]_vars

\* C34, amended: in a world built under full observability the field of
\* view is none in every state, aim, approach and triage are never legal, no
\* step changes the danger or savior of a victim, and the color of a victim
\* changes only from Green or Gold to Red, by expiry.
C34_FullObsOnlyExpiry ==
    /\ [](FULL_OBS = "True" =>
            (vicInFOV = "none" /\ ~PreTriageLegal /\ ~TriageLegal))
    /\ [][FULL_OBS = "True" =>
            \A v \in DOMAIN vic :
               /\ vic'[v].danger = vic[v].danger
               /\ vic'[v].savior = vic[v].savior
               /\ vic'[v].color # vic[v].color =>
                     (/\ lastAct' = "expire"
                      /\ vic[v].color \in RescuableSet
                      /\ vic'[v].color = "Red")]_vars

\* a world built under full observability in which a victim has expired and
\* another has not
C34_Witness ==
    /\ FULL_OBS = "True" /\ "search" \notin actions
    /\ \E v, w \in DOMAIN vic :
          /\ vic[v].color = "Red" /\ vic[v].danger >= 1
          /\ vic[w].color \in RescuableSet

\* the types a line can be recorded under
MsgTypeSet == {msg_types[i] : i \in DOMAIN msg_types}

\* the lines that set the mission running or not running
ControlKinds ==
    {"Mission:VictimList", "Event:MissionState:Stop", "Event:Pause:true",
     "Event:Pause:false"}

\* C35: in add_all_messages the mission starts running at the victim-list
\* line, stops at a mission Stop or 'paused: true' line and resumes at a
\* 'paused: false' line; any other line leaves the flag as it is; an entry
\* is added to messages or observations only with the mission running, and
\* a line processed while it is not running adds none.
C35_RecordedOnlyWhileRunning ==
    [][call'.fn = "add_all_messages" =>
         LET line == call'.args
             added == \/ Len(reader'.messages) > Len(reader.messages)
                      \/ Len(reader'.observations) > Len(reader.observations)
         IN  /\ line.kind = "Mission:VictimList" => reader'.mission_running
             /\ line.kind \in {"Event:MissionState:Stop", "Event:Pause:true"}
                   => ~reader'.mission_running
             /\ line.kind = "Event:Pause:false" => reader'.mission_running
             /\ line.kind \notin ControlKinds
                   => reader'.mission_running = reader.mission_running
             /\ added => reader'.mission_running
             /\ (line.kind \notin ControlKinds /\ ~reader.mission_running)
                   => /\ reader'.messages = reader.messages
                      /\ reader'.observations = reader.observations]_vars

\* a triage line read while the mission is paused, after the victim list
\* was recorded
C35_Witness ==
    /\ call.fn = "add_all_messages"
    /\ call.args.kind = "Event:Triage"
    /\ ~reader.mission_running
    /\ Len(reader.messages) = 1
    /\ reader.messages[1].mtype = "Mission:VictimList"
    /\ reader.nlines = 3

\* C36: a line of a type listed in msg_types (Event:Beep included) that is
\* processed without error while the mission is running appends a message of
\* that type, a FoV line only when it names a victim and its observation
\* has a timer.
C36_EveryTypeRecordable ==
    [][call'.fn = "add_all_messages" =>
         LET line == call'.args
         IN  (/\ line.kind \in MsgTypeSet
              /\ reader.mission_running
              /\ reader'.err = "none"
              /\ line.kind = "FoV" =>
                    /\ line.victim
                    /\ get_obs_timer(reader.observations, line.obs) # "")
             => /\ Len(reader'.messages) = Len(reader.messages) + 1
                /\ reader'.messages[Len(reader'.messages)].mtype = line.kind]_vars

\* the rooms of the portals of doors whose range contains (x, z)
MatchingRooms(doors, x, z) ==
    {<<doors[i].room1, doors[i].room2>> :
        i \in {j \in DOMAIN doors : at_this_door(doors[j], x, z)}}

\* C37: for a door event at any coordinate and any number of portals whose
\* range contains it, add_door_rooms raises no error and leaves the message
\* with room1 and room2 set, to a matching portal's rooms or to 'null' when
\* none matches, and without door_x and door_z.
C37_DoorRoomsAlwaysSet ==
    call.fn = "add_door_rooms" =>
       LET res == call.result
           rooms == MatchingRooms(reader.doors, call.args[1], call.args[2])
       IN  /\ res.err = "none"
           /\ {"room1", "room2"} \subseteq DOMAIN res.mdict
           /\ "door_x" \notin DOMAIN res.mdict
           /\ "door_z" \notin DOMAIN res.mdict
           /\ IF rooms = {}
              THEN res.mdict["room1"] = "null" /\ res.mdict["room2"] = "null"
              ELSE <<res.mdict["room1"], res.mdict["room2"]>> \in rooms

\* the analyzer holds a result and a trajectory for the file f
Held(an, f) == f \in DOMAIN an.results /\ f \in DOMAIN an.trajectories

\* C38: once the analyzer holds a result and a trajectory for a replay
\* file, no call changes them, process_files leaves the file out of the
\* file list, and post_replay for it returns without a learning run and
\* without writing to the output directory.
C38_NotProcessedAgain ==
    [][\A f \in FileNames :
          Held(analyzer, f) =>
             /\ Held(analyzer', f)
             /\ analyzer'.results[f] = analyzer.results[f]
             /\ analyzer'.trajectories[f] = analyzer.trajectories[f]
             /\ call'.fn = "process_files" =>
                   \A i \in DOMAIN analyzer'.files : analyzer'.files[i] # f
             /\ (call'.fn = "post_replay" /\ call'.args[1] = f) =>
                   /\ call'.result = "held"
                   /\ analyzer'.learned = analyzer.learned
                   /\ cache' = cache]_vars

\* post_replay, with a trajectory long enough for learning, for a file
\* whose result was learned and that process_files has taken off the list
C38_Witness ==
    /\ call.fn = "post_replay"
    /\ call.result = "held"
    /\ call.args[2]
    /\ Held(analyzer, call.args[1])
    /\ analyzer.results[call.args[1]].origin = "learned"
    /\ \A i \in DOMAIN analyzer.files : analyzer.files[i] # call.args[1]

\* C39: after any sequence of process_files, _check_results and post_replay
\* calls, results and trajectories have the same file names as keys.
C39_SameKeys == DOMAIN analyzer.results = DOMAIN analyzer.trajectories

============================================================================
